---- MODULE Spec2Model ----
(***************************************************************************)
(* State-machine model of src/app.py ("Curiosity AI Scans"): a Streamlit   *)
(* script that sends uploaded images and PDF pages to a vision model,      *)
(* recovers structured records from the answers and exports CSV tables.    *)
(*                                                                         *)
(* Strings the code only passes around (file names, labels, values) are    *)
(* TLA+ strings.  Strings the code sorts or strips (dictionary keys, field *)
(* names) are sequences of character codes, so that sorted() and strip()   *)
(* are computed rather than assumed.  The model's answer text is           *)
(* represented by what the code reads off it (see Content below).          *)
(***************************************************************************)
EXTENDS Integers, Sequences, FiniteSets, TLC

VARIABLES
    PDF_SUPPORT,         \* line 14-18: whether the fitz import succeeded
    uploaded_files,      \* line 42: the upload widget's list
    extraction_mode,     \* line 53 / 80
    pdf_process_mode,    \* line 68 / 73 / 81, or Undefined when never assigned
    fields,              \* line 250 / 252
    results,             \* st.session_state.results
    structured_results,  \* st.session_state.structured_results
    total_items,         \* line 255
    processed_count,     \* line 278
    pc,                  \* where the script run is
    i,                   \* index of the file the counting/processing loop is at
    page_num,            \* next page the process_pdf generator will render
    status_text,         \* last text shown by status_text.text
    progress,            \* last value handed to progress_bar.progress
    errors,              \* st.error messages of this script run, in order
    calls,               \* labels for which query_ollama was invoked, in order
    downloads,           \* what the download section (lines 375-431) built
    resize_call,         \* a call of resize_image and what it returned
    extract_call         \* a call of extract_structured_data and what it returned

vars == <<PDF_SUPPORT, uploaded_files, extraction_mode, pdf_process_mode, fields,
          results, structured_results, total_items, processed_count, pc, i,
          page_num, status_text, progress, errors, calls, downloads,
          resize_call, extract_call>>

batch_vars == <<PDF_SUPPORT, uploaded_files, extraction_mode, pdf_process_mode,
                fields, results, structured_results, total_items,
                processed_count, pc, i, page_num, status_text, progress, errors,
                calls, downloads>>

-----------------------------------------------------------------------------
(* Bounds of the explored input space.                                     *)

MaxFiles == 3      \* files in one upload
MaxPages == 2      \* pages of one PDF
MaxDim == 23       \* width and height of an image handed to resize_image
MaxSide == 13      \* max_size handed to resize_image

-----------------------------------------------------------------------------
(* Python float arithmetic (IEEE 754 binary64, round to nearest even) on   *)
(* positive values, as used by  int(height * (max_size / width)).          *)
(* A float is [man, exp]: a mantissa of at most MantissaBits bits, most    *)
(* significant first, worth  man * 2^exp.                                  *)

MantissaBits == 53

RECURSIVE Normalize(_, _, _)
\* <<a', b', e>> with b' <= a' < 2*b' and a/b = (a'/b') * 2^e
Normalize(a, b, e) ==
    IF a < b THEN Normalize(2 * a, b, e - 1)
    ELSE IF a >= 2 * b THEN Normalize(a, 2 * b, e + 1)
    ELSE <<a, b, e>>

\* the w-bit binary numeral of n, most significant bit first
Bits(n, w) == [j \in 1..w |-> (n \div 2^(w - j)) % 2]

RECURSIVE BitsToInt(_)
BitsToInt(bits) ==
    IF bits = <<>> THEN 0
    ELSE 2 * BitsToInt(SubSeq(bits, 1, Len(bits) - 1)) + bits[Len(bits)]

RECURSIVE QuotientBits(_, _, _, _)
\* n more bits of the binary expansion of a quotient with remainder r,
\* eight at a time
QuotientBits(r, b, n, acc) ==
    IF n = 0 THEN <<acc, r>>
    ELSE LET w == IF n < 8 THEN n ELSE 8
             q == (r * 2^w) \div b
             next == acc \o Bits(q, w)
         IN  QuotientBits((r * 2^w) % b, b, n - w, next)

\* bits + 1
Increment(bits) ==
    LET zeros == {j \in 1..Len(bits) : bits[j] = 0}
    IN  IF zeros = {} THEN <<1>> \o [j \in 1..Len(bits) |-> 0]
        ELSE LET z == CHOOSE j \in zeros : \A k \in zeros : k <= j
             IN  [j \in 1..Len(bits) |->
                    IF j < z THEN bits[j] ELSE IF j = z THEN 1 ELSE 0]

\* bits * 2^exp (plus a non-zero tail when sticky) rounded to MantissaBits bits
RoundToNearestEven(bits, exp, sticky) ==
    IF Len(bits) <= MantissaBits THEN [man |-> bits, exp |-> exp]
    ELSE LET kept == SubSeq(bits, 1, MantissaBits)
             dropped == SubSeq(bits, MantissaBits + 1, Len(bits))
             rest == sticky \/ \E n \in 2..Len(dropped) : dropped[n] = 1
             up == dropped[1] = 1 /\ (rest \/ kept[MantissaBits] = 1)
             r == IF up THEN Increment(kept) ELSE kept
         IN  [man |-> SubSeq(r, 1, MantissaBits),
              exp |-> exp + Len(dropped) + (Len(r) - MantissaBits)]

\* a / b for positive integers (Python's true division, correctly rounded)
FloatDiv(a, b) ==
    LET n == Normalize(a, b, 0)
        q == QuotientBits(n[1] - n[2], n[2], MantissaBits, <<1>>)
    IN  RoundToNearestEven(q[1], n[3] - MantissaBits, q[2] # 0)

RECURSIVE TimesInt(_, _, _, _)
\* the bits of k * bits, least significant bits first into acc, eight at a time
TimesInt(bits, k, carry, acc) ==
    IF bits = <<>> THEN
        IF carry = 0 THEN acc
        ELSE TimesInt(bits, k, carry \div 2, <<carry % 2>> \o acc)
    ELSE LET w == IF Len(bits) < 8 THEN Len(bits) ELSE 8
             low == SubSeq(bits, Len(bits) - w + 1, Len(bits))
             d == k * BitsToInt(low) + carry
             next == Bits(d % 2^w, w) \o acc
         IN  TimesInt(SubSeq(bits, 1, Len(bits) - w), k, d \div 2^w, next)

\* k * f for a positive integer k (k converts to float exactly)
FloatMul(k, f) == RoundToNearestEven(TimesInt(f.man, k, 0, <<>>), f.exp, FALSE)

\* int(f): truncation toward zero
int(f) ==
    IF f.exp >= 0 THEN BitsToInt(f.man) * 2^f.exp
    ELSE IF Len(f.man) + f.exp <= 0 THEN 0
    ELSE BitsToInt(SubSeq(f.man, 1, Len(f.man) + f.exp))

-----------------------------------------------------------------------------
(* resize_image (lines 84-99).  An image is its size <<width, height>>;    *)
(* the result is the size of the returned image, i.e. the size handed to   *)
(* image.resize, or the unchanged size.                                    *)

DEFAULT_MAX_SIZE == 1024

resize_image(image, max_size) ==
    LET width == image[1]
        height == image[2]
    IN  IF width > max_size \/ height > max_size
        THEN IF width > height
             THEN <<max_size, int(FloatMul(height, FloatDiv(max_size, width)))>>
             ELSE <<int(FloatMul(width, FloatDiv(max_size, height))), max_size>>
        ELSE image

-----------------------------------------------------------------------------
(* Strings that are sorted or stripped: sequences of character codes.      *)

SPACE == 32

S_filename == <<102, 105, 108, 101, 110, 97, 109, 101>>   \* "filename"
S_Total == <<84, 111, 116, 97, 108>>                      \* "Total"
S_Date == <<68, 97, 116, 101>>                            \* "Date"
S_date == <<100, 97, 116, 101>>                           \* "date"

RECURSIVE lstrip(_)
lstrip(s) == IF s # <<>> /\ Head(s) = SPACE THEN lstrip(Tail(s)) ELSE s

RECURSIVE rstrip(_)
rstrip(s) ==
    IF s # <<>> /\ s[Len(s)] = SPACE THEN rstrip(SubSeq(s, 1, Len(s) - 1)) ELSE s

\* str.strip()
strip(s) == rstrip(lstrip(s))

\* Python's  a < b  on strings: by code point, a proper prefix first
RECURSIVE StrLess(_, _)
StrLess(a, b) ==
    IF b = <<>> THEN FALSE
    ELSE IF a = <<>> THEN TRUE
    ELSE IF Head(a) # Head(b) THEN Head(a) < Head(b)
    ELSE StrLess(Tail(a), Tail(b))

-----------------------------------------------------------------------------
(* Dictionaries: functions from keys to values.  A key is a string, or a   *)
(* value of another hashable type (dict.update accepts a list of pairs, so *)
(* a parsed JSON array can put a number in as a key).                      *)

Str(codes) == [type |-> "str", repr |-> codes]
Num(n) == [type |-> "int", repr |-> <<n>>]

KEY_filename == Str(S_filename)

EmptyDict == [k \in {} |-> ""]

keys(d) == DOMAIN d

len(d) == Cardinality(DOMAIN d)

\* d.update(e)
update(d, e) == e @@ d

\* d.get(k, default)
get(d, k, default) == IF k \in DOMAIN d THEN d[k] ELSE default

-----------------------------------------------------------------------------
(* The model's answer text, as the code reads it (lines 131-143):          *)
(*   fenced : "```json" occurs and a closing "```" follows it (line 131);  *)
(*   block  : what json.loads makes of the first fenced block, and what    *)
(*            dict.update(...) then does with it (lines 132-134);          *)
(*   whole  : the same for the whole text (lines 142-143);                 *)
(*   quoted : the strings s for which "s" or 's' occurs in the text.       *)
(* A parse is [kind, pairs, raises]:                                       *)
(*   "error"  json.loads raises;                                           *)
(*   "object" a JSON object: update inserts exactly its pairs;             *)
(*   "other"  any other JSON value: update inserts the pairs of the        *)
(*            leading 2-element items (none for a number) and raises at    *)
(*            the first item that is not one, if any.                      *)

ParseError == [kind |-> "error", pairs |-> EmptyDict, raises |-> TRUE]
Object(d) == [kind |-> "object", pairs |-> d, raises |-> FALSE]
Other(d, r) == [kind |-> "other", pairs |-> d, raises |-> r]

Text(fenced, block, whole, quoted) ==
    [fenced |-> fenced, block |-> block, whole |-> whole, quoted |-> quoted]

StrKeys(d) == {k.repr : k \in {x \in DOMAIN d : x.type = "str"}}

\* what any text satisfies: an object's keys stand double-quoted in the text;
\* a text that is itself JSON can hold a fence only inside string literals, so
\* its block has no string keys
WellFormed(c) ==
    /\ c.whole.kind = "object" => StrKeys(c.whole.pairs) \subseteq c.quoted
    /\ (c.fenced /\ c.block.kind = "object") => StrKeys(c.block.pairs) \subseteq c.quoted
    /\ ~c.fenced => c.block = ParseError
    /\ (c.fenced /\ c.whole.kind # "error") => StrKeys(c.block.pairs) = {}

\* extracted_data = json.loads(json_str); structured_data.update(extracted_data)
loads_update(parse, structured_data) ==
    [raised |-> parse.raises, data |-> update(structured_data, parse.pairs)]

RECURSIVE scan_fields(_, _, _, _)
\* the for loop of lines 138-146, from the n-th field on
scan_fields(content, flds, n, structured_data) ==
    IF n > Len(flds) THEN structured_data
    ELSE IF strip(flds[n]) \in content.quoted
         THEN LET r == loads_update(content.whole, structured_data)
              IN  IF r.raised
                  THEN scan_fields(content, flds, n + 1, r.data)   \* except: pass
                  ELSE r.data                                      \* break
         ELSE scan_fields(content, flds, n + 1, structured_data)

\* a slip the claims about the extractor must detect: a fenced block that fails
\* to parse falls through to the whole-text scan
extract_structured_data_fallthrough(content, flds) ==
    IF content.fenced /\ content.block.kind # "error"
    THEN loads_update(content.block, EmptyDict).data
    ELSE scan_fields(content, flds, 1, EmptyDict)

\* lines 125-151; the outer except (line 147) returns what has been inserted
extract_structured_data(content, flds) ==
    IF content.fenced
    THEN loads_update(content.block, EmptyDict).data
    ELSE scan_fields(content, flds, 1, EmptyDict)

-----------------------------------------------------------------------------
(* Uploaded files.  A file is [stem, ext, opens, pages]: its name is        *)
(* stem \o ext; for a PDF, opens says whether fitz.open accepts its bytes   *)
(* (the same bytes are read at line 259 and at line 282, so counting and    *)
(* processing see the same answer) and pages is len(pdf_document).          *)

GENERAL == "General description"
CUSTOM == "Custom field extraction"
PER_PAGE == "Process each page separately"
WHOLE == "Process entire PDF as one document"
Undefined == "<name not defined>"

\* fields = None; custom_fields.split(",") is never empty, so the empty
\* sequence is free to stand for None
None == <<>>

Name(f) == f.stem \o f.ext

\* str.lower() on the extensions the uploader lets through (line 45)
lower(ext) ==
    CASE ext = ".PDF" -> ".pdf"
      [] ext = ".JPG" -> ".jpg"
      [] OTHER -> ext

\* uploaded_file.name.lower().endswith('.pdf')
is_pdf(f) == lower(f.ext) = ".pdf"

\* page_filename (line 211)
page_label(filename, n) == filename \o " (Page " \o ToString(n + 1) \o ")"

-----------------------------------------------------------------------------
(* process_image (lines 154-190) once the model has answered with content. *)
(* Returns <<result, content, structured_data>>; structured_data is <<>>    *)
(* for None and <<d>> for a dictionary d.                                   *)

process_image(filename, flds, content) ==
    IF flds = None
    THEN <<[filename |-> filename, description |-> content], content, <<>>>>
    ELSE <<[filename |-> filename, extraction |-> content], content,
           <<update(KEY_filename :> filename,
                    extract_structured_data(content, flds))>>>>

\* Python truth value of structured_data: not None and not empty
truthy(structured_data) ==
    structured_data # <<>> /\ len(structured_data[1]) > 0

\* structured_data and len(structured_data) > 1   (lines 216, 229, 314)
more_than_filename(structured_data) ==
    truthy(structured_data) /\ len(structured_data[1]) > 1

\* list.append
append_front(list, x) == <<x>> \o list

append(list, x) == Append(list, x)

-----------------------------------------------------------------------------
(* Counting phase, one file (lines 258-276): what the file adds to         *)
(* total_items, the st.error it shows, and whether the run dies of the     *)
(* NameError raised by reading pdf_process_mode, which lines 59-73 assign  *)
(* only under "Custom field extraction".                                   *)

count_file_skipping_unsupported(f, mode, support) ==
    IF is_pdf(f) /\ support
    THEN IF mode = Undefined THEN [raises |-> TRUE, add |-> 0, error |-> <<>>]
         ELSE IF mode = PER_PAGE
         THEN IF f.opens
              THEN [raises |-> FALSE, add |-> f.pages, error |-> <<>>]
              ELSE [raises |-> FALSE, add |-> 1,
                    error |-> <<"Error processing PDF " \o Name(f)>>]
         ELSE [raises |-> FALSE, add |-> 1, error |-> <<>>]
    ELSE [raises |-> FALSE, add |-> IF is_pdf(f) THEN 0 ELSE 1, error |-> <<>>]

count_file(f, mode, support) ==
    IF is_pdf(f) /\ support
    THEN IF mode = Undefined THEN [raises |-> TRUE, add |-> 0, error |-> <<>>]
         ELSE IF mode = PER_PAGE
         THEN IF f.opens
              THEN [raises |-> FALSE, add |-> f.pages, error |-> <<>>]
              ELSE [raises |-> FALSE, add |-> 1,
                    error |-> <<"Error processing PDF " \o Name(f)>>]
         ELSE [raises |-> FALSE, add |-> 1, error |-> <<>>]
    ELSE [raises |-> FALSE, add |-> 1, error |-> <<>>]

-----------------------------------------------------------------------------
(* The download section (lines 375-431).                                   *)

\* result.get('description', result.get('extraction', ''))
description_of(result) ==
    IF "description" \in DOMAIN result THEN <<result.description>>
    ELSE IF "extraction" \in DOMAIN result THEN <<result.extraction>>
    ELSE <<>>

flat_rows(res) == [n \in DOMAIN res |-> <<res[n].filename, description_of(res[n])>>]

\* all_fields (lines 404-406)
all_fields(structured) ==
    {KEY_filename} \cup UNION {keys(structured[n]) : n \in DOMAIN structured}

RECURSIVE ascending(_)
ascending(S) ==
    IF S = {} THEN <<>>
    ELSE LET first == CHOOSE x \in S : \A y \in S \ {x} : StrLess(x.repr, y.repr)
         IN  <<first>> \o ascending(S \ {first})

\* sorted(list(all_fields)): comparing a str with a key of another type
\* raises TypeError, and 'filename' is always among the keys
sorted(S) ==
    IF \E k \in S : k.type # "str"
    THEN [raised |-> TRUE, list |-> <<>>]
    ELSE [raised |-> FALSE, list |-> ascending(S)]

\* row = [result.get(field, '') for field in field_list]
row(result, field_list) ==
    [n \in DOMAIN field_list |-> get(result, field_list[n], "")]

NoDownloads ==
    [flat |-> FALSE, flat_rows |-> <<>>, structured |-> FALSE,
     field_list |-> <<>>, rows |-> <<>>, raised |-> FALSE]

download_section(mode, res, structured) ==
    IF res = <<>> THEN NoDownloads
    ELSE LET flat == mode = GENERAL \/ Len(structured) = 0
             tabular == mode = CUSTOM /\ Len(structured) > 0
             field_list == sorted(all_fields(structured))
         IN  [flat |-> flat,
              flat_rows |-> IF flat THEN flat_rows(res) ELSE <<>>,
              structured |-> tabular /\ ~field_list.raised,
              field_list |-> IF tabular THEN field_list.list ELSE <<>>,
              rows |-> IF tabular /\ ~field_list.raised
                       THEN [n \in DOMAIN structured |->
                                row(structured[n], field_list.list)]
                       ELSE <<>>,
              raised |-> tabular /\ field_list.raised]

-----------------------------------------------------------------------------
(* Inputs: what the user uploads and what the vision model answers.        *)

Images ==
    {[stem |-> "a", ext |-> ".png", opens |-> TRUE, pages |-> 1],
     [stem |-> "b", ext |-> ".JPG", opens |-> TRUE, pages |-> 1]}

Pdfs ==
    {[stem |-> "c", ext |-> ".pdf", opens |-> FALSE, pages |-> 0]}
    \cup {[stem |-> "c", ext |-> ".pdf", opens |-> TRUE, pages |-> n] : n \in 0..MaxPages}

Uploads == UNION {[1..n -> Images \cup Pdfs] : n \in 1..MaxFiles}

\* the pieces of custom_fields.split(",")
CustomFieldInputs == {<<S_Total, <<SPACE>> \o S_Date>>, <<S_date>>}

\* "Sorry, I cannot read this document."
Prose == Text(FALSE, ParseError, ParseError, {})

\* ```json {"Total": "9", "date": "d"} ```
FencedObject ==
    Text(TRUE, Object((Str(S_Total) :> "9") @@ (Str(S_date) :> "d")), ParseError,
         {S_Total, S_date})

\* ```json {"filename": "zz", "Date": "d"} ```
FencedFilename ==
    Text(TRUE, Object((KEY_filename :> "zz") @@ (Str(S_Date) :> "d")), ParseError,
         {S_filename, S_Date})

\* {"Date": "d"}
BareObject == Text(FALSE, ParseError, Object(Str(S_Date) :> "d"), {S_Date})

\* ```json [[1, "x"]] ```
FencedPairs == Text(TRUE, Other(Num(1) :> "x", FALSE), ParseError, {})

Responses == {Prose, FencedObject, FencedFilename, BareObject, FencedPairs}

FlowResponses == {FencedObject}

Rich == [responses |-> Responses, field_inputs |-> CustomFieldInputs]

Lean == [responses |-> FlowResponses, field_inputs |-> {<<S_Total>>}]

\* how one unit's rasterize / encode / model call goes
Outcomes(R) ==
    {[kind |-> k, content |-> Prose] : k \in {"encode_error", "model_error"}}
    \cup {[kind |-> "ok", content |-> c] : c \in R}

ImageOutcomes(R) == Outcomes(R) \cup {[kind |-> "open_error", content |-> Prose]}

-----------------------------------------------------------------------------
(* The script.                                                             *)

CallEntry(label) == [file |-> i, page |-> page_num, label |-> label]

ErrorEntry(message) == [file |-> i, page |-> page_num, message |-> message]

\* query_ollama is reached unless opening or encoding failed first
calls_after(o, label) ==
    IF o.kind \in {"ok", "model_error"} THEN Append(calls, CallEntry(label)) ELSE calls

pure_vars == <<resize_call, extract_call>>

inputs == <<PDF_SUPPORT, uploaded_files, extraction_mode, pdf_process_mode, fields>>

\* an uncaught exception ends the script run
Raise(errs, message) ==
    /\ pc' = "aborted"
    /\ errors' = Append(errs, ErrorEntry(message))

\* processed_count += 1; progress_bar.progress(processed_count / total_items)
\* (lines 289-290, 369-370), the st.error messages errs having been shown
CountUnit(errs) ==
    /\ processed_count' = processed_count + 1
    /\ IF total_items = 0
       THEN Raise(errs, "ZeroDivisionError") /\ UNCHANGED <<progress, i>>
       ELSE /\ progress' = <<processed_count + 1, total_items>>
            /\ errors' = errs
            /\ i' = i + 1
            /\ pc' = pc

\* The user uploads files, picks the options and presses Process Files
\* (lines 42-76 and 238-256).  The run sets every variable but the process-wide
\* PDF_SUPPORT afresh, so a later press leads to the states a first press leads
\* to: the model takes the press in a fresh session, and Reload leads there.
Process(D) ==
    /\ pc = "idle"
    /\ uploaded_files = <<>>
    /\ \E files \in Uploads, mode \in {GENERAL, CUSTOM},
          choice \in {PER_PAGE, WHOLE}, custom_fields \in D.field_inputs :
          /\ mode = GENERAL => (choice = PER_PAGE /\ custom_fields \in D.field_inputs)
          /\ (mode = CUSTOM /\ \A n \in DOMAIN files : ~is_pdf(files[n]))
                => choice = PER_PAGE
          /\ mode = GENERAL =>
                custom_fields = CHOOSE c \in D.field_inputs : TRUE
          /\ uploaded_files' = files
          /\ extraction_mode' = mode
          /\ pdf_process_mode' = IF mode = CUSTOM THEN choice ELSE Undefined
          /\ fields' = IF mode = CUSTOM
                       THEN [n \in DOMAIN custom_fields |-> strip(custom_fields[n])]
                       ELSE None
    /\ results' = <<>>
    /\ structured_results' = <<>>
    /\ total_items' = 0
    /\ processed_count' = 0
    /\ i' = 1
    /\ page_num' = 0
    /\ status_text' = ""
    /\ progress' = <<0, 1>>
    /\ errors' = <<>>
    /\ calls' = <<>>
    /\ downloads' = NoDownloads
    /\ pc' = "counting"
    /\ UNCHANGED <<PDF_SUPPORT, pure_vars>>

\* one iteration of the counting loop (lines 258-276)
CountFile ==
    /\ pc = "counting"
    /\ i <= Len(uploaded_files)
    /\ LET c == count_file(uploaded_files[i], pdf_process_mode, PDF_SUPPORT)
       IN  IF c.raises
           THEN /\ Raise(errors, "NameError: name 'pdf_process_mode' is not defined")
                /\ UNCHANGED <<total_items, i>>
           ELSE /\ total_items' = total_items + c.add
                /\ errors' = errors \o [n \in DOMAIN c.error |-> ErrorEntry(c.error[n])]
                /\ i' = i + 1
                /\ pc' = pc
    /\ UNCHANGED <<inputs, results, structured_results, processed_count, page_num,
                   status_text, progress, calls, downloads, pure_vars>>

\* processed_count = 0 and the processing loop is entered (lines 278-281)
StartProcessing ==
    /\ pc = "counting"
    /\ i > Len(uploaded_files)
    /\ processed_count' = 0
    /\ i' = 1
    /\ page_num' = 0
    /\ pc' = "processing"
    /\ UNCHANGED <<inputs, results, structured_results, total_items, status_text,
                   progress, errors, calls, downloads, pure_vars>>

\* a PDF without PyMuPDF (lines 286-291)
ProcessUnsupportedPdf ==
    /\ pc = "processing"
    /\ i <= Len(uploaded_files)
    /\ is_pdf(uploaded_files[i])
    /\ ~PDF_SUPPORT
    /\ CountUnit(Append(errors, ErrorEntry("Cannot process PDF file "
                                           \o Name(uploaded_files[i]))))
    /\ UNCHANGED <<inputs, results, structured_results, total_items, page_num,
                   status_text, calls, downloads, pure_vars>>

\* process_pdf's except clause yields the error tuple and the generator ends;
\* the loop body shows the message and continues (lines 234-235, 300-302)
PdfError(message, newcalls) ==
    /\ errors' = Append(errors, ErrorEntry("Error processing PDF: " \o message))
    /\ calls' = newcalls
    /\ i' = i + 1
    /\ page_num' = 0
    /\ UNCHANGED <<inputs, results, structured_results, total_items,
                   processed_count, pc, status_text, progress, downloads, pure_vars>>

\* a yielded page arrives in the loop body (lines 298-333, with the handler of
\* lines 335-338 around the division)
PdfPage(label, shown, o, next_page) ==
    LET out == process_image(label, fields, o.content)
        result == [filename |-> shown, description |-> out[2]]
    IN  /\ status_text' = "Processing " \o label
        /\ results' = append(results, result)
        /\ structured_results' =
              IF more_than_filename(out[3])
              THEN append(structured_results, out[3][1])
              ELSE structured_results
        /\ calls' = Append(calls, CallEntry(label))
        /\ IF total_items = 0
           THEN /\ processed_count' = processed_count + 2
                /\ Raise(Append(errors, ErrorEntry("Error processing PDF "
                                                   \o Name(uploaded_files[i]))),
                         "ZeroDivisionError")
                /\ UNCHANGED <<progress, i, page_num>>
           ELSE /\ processed_count' = processed_count + 1
                /\ progress' = <<IF processed_count + 1 > total_items
                                 THEN total_items ELSE processed_count + 1,
                                 total_items>>
                /\ errors' = errors
                /\ pc' = pc
                /\ IF 0 < next_page /\ next_page < uploaded_files[i].pages
                   THEN page_num' = next_page /\ i' = i
                   ELSE page_num' = 0 /\ i' = i + 1   \* the generator is exhausted
        /\ UNCHANGED <<inputs, total_items, downloads, pure_vars>>

\* fitz.open raises inside process_pdf (line 200)
ProcessPdfOpenError ==
    /\ pc = "processing"
    /\ i <= Len(uploaded_files)
    /\ is_pdf(uploaded_files[i])
    /\ PDF_SUPPORT
    /\ ~uploaded_files[i].opens
    /\ PdfError("cannot open document", calls)

\* a PDF of no pages, page by page: range(page_count) is empty (line 205)
ProcessPdfNoPages ==
    /\ pc = "processing"
    /\ i <= Len(uploaded_files)
    /\ is_pdf(uploaded_files[i])
    /\ PDF_SUPPORT
    /\ uploaded_files[i].opens
    /\ pdf_process_mode = PER_PAGE
    /\ uploaded_files[i].pages = 0
    /\ i' = i + 1
    /\ UNCHANGED <<inputs, results, structured_results, total_items,
                   processed_count, pc, page_num, status_text, progress, errors,
                   calls, downloads, pure_vars>>

\* the next page of a PDF, page by page (lines 205-219 and 297-333)
ProcessPdfPage(D) ==
    /\ pc = "processing"
    /\ i <= Len(uploaded_files)
    /\ is_pdf(uploaded_files[i])
    /\ PDF_SUPPORT
    /\ uploaded_files[i].opens
    /\ pdf_process_mode = PER_PAGE
    /\ uploaded_files[i].pages > 0
    /\ LET label == page_label(Name(uploaded_files[i]), page_num)
       IN  \E o \in Outcomes(D.responses) :
              IF o.kind = "ok"
              THEN PdfPage(label, label, o, page_num + 1)
              ELSE PdfError(o.kind, calls_after(o, label))

\* a PDF as one document: its first page only (lines 221-232 and 297-333)
ProcessPdfWhole(D) ==
    /\ pc = "processing"
    /\ i <= Len(uploaded_files)
    /\ is_pdf(uploaded_files[i])
    /\ PDF_SUPPORT
    /\ uploaded_files[i].opens
    /\ pdf_process_mode # PER_PAGE
    /\ IF uploaded_files[i].pages = 0
       THEN PdfError("page not in document", calls)
       ELSE \E o \in Outcomes(D.responses) :
               IF o.kind = "ok"
               THEN PdfPage(Name(uploaded_files[i]), Name(uploaded_files[i]), o, 0)
               ELSE PdfError(o.kind, calls_after(o, Name(uploaded_files[i])))

\* a regular image file (lines 340-370)
ProcessImageFile(D) ==
    /\ pc = "processing"
    /\ i <= Len(uploaded_files)
    /\ ~is_pdf(uploaded_files[i])
    /\ status_text' = "Processing image " \o Name(uploaded_files[i])
    /\ \E o \in ImageOutcomes(D.responses) :
          LET out == process_image(Name(uploaded_files[i]), fields, o.content)
          IN  /\ calls' = calls_after(o, Name(uploaded_files[i]))
              /\ IF o.kind = "ok"
                 THEN /\ results' = append(results, out[1])
                      /\ structured_results' =
                            IF truthy(out[3])
                            THEN append(structured_results, out[3][1])
                            ELSE structured_results
                      /\ CountUnit(errors)
                 ELSE /\ UNCHANGED <<results, structured_results>>
                      /\ CountUnit(Append(errors,
                            ErrorEntry("Error processing image "
                                       \o Name(uploaded_files[i]) \o ": " \o o.kind)))
    /\ UNCHANGED <<inputs, total_items, page_num, downloads, pure_vars>>

\* the loop is over: "Processing complete!" and the download section
\* (lines 372-431)
Complete ==
    /\ pc = "processing"
    /\ i > Len(uploaded_files)
    /\ status_text' = "Processing complete!"
    /\ downloads' = download_section(extraction_mode, results, structured_results)
    /\ pc' = "complete"
    /\ UNCHANGED <<inputs, results, structured_results, total_items,
                   processed_count, i, page_num, progress, errors, calls, pure_vars>>

\* the script runs again without the button (the user changed the extraction
\* mode): only session_state survives, and the download section is rebuilt
Rerun ==
    /\ pc \in {"complete", "aborted"}
    /\ \E mode \in {GENERAL, CUSTOM}, choice \in {PER_PAGE, WHOLE} :
          /\ (mode = CUSTOM /\ \A n \in DOMAIN uploaded_files :
                                   ~is_pdf(uploaded_files[n])) => choice = PER_PAGE
          /\ mode = GENERAL => choice = PER_PAGE
          /\ extraction_mode' = mode
          /\ pdf_process_mode' = IF mode = CUSTOM THEN choice ELSE Undefined
          /\ downloads' = download_section(mode, results, structured_results)
    /\ fields' = None
    /\ total_items' = 0
    /\ processed_count' = 0
    /\ i' = 1
    /\ page_num' = 0
    /\ status_text' = ""
    /\ progress' = <<0, 1>>
    /\ errors' = <<>>
    /\ calls' = <<>>
    /\ pc' = "idle"
    /\ UNCHANGED <<PDF_SUPPORT, uploaded_files, results, structured_results, pure_vars>>

\* the browser page is reloaded: a new session, with empty session_state
\* (lines 33-36) and nothing uploaded (lines 77-81)
Reload ==
    /\ pc \in {"idle", "complete", "aborted"}
    /\ uploaded_files # <<>>
    /\ uploaded_files' = <<>>
    /\ extraction_mode' = GENERAL
    /\ pdf_process_mode' = PER_PAGE
    /\ fields' = None
    /\ results' = <<>>
    /\ structured_results' = <<>>
    /\ total_items' = 0
    /\ processed_count' = 0
    /\ i' = 1
    /\ page_num' = 0
    /\ status_text' = ""
    /\ progress' = <<0, 1>>
    /\ errors' = <<>>
    /\ calls' = <<>>
    /\ downloads' = NoDownloads
    /\ pc' = "idle"
    /\ UNCHANGED <<PDF_SUPPORT, pure_vars>>

NoCall == [args |-> <<>>, ret |-> <<>>]

\* the first script run of a session (lines 33-36, 78-81): nothing uploaded
Init ==
    /\ PDF_SUPPORT \in BOOLEAN
    /\ uploaded_files = <<>>
    /\ extraction_mode = GENERAL
    /\ pdf_process_mode = PER_PAGE
    /\ fields = None
    /\ results = <<>>
    /\ structured_results = <<>>
    /\ total_items = 0
    /\ processed_count = 0
    /\ pc = "idle"
    /\ i = 1
    /\ page_num = 0
    /\ status_text = ""
    /\ progress = <<0, 1>>
    /\ errors = <<>>
    /\ calls = <<>>
    /\ downloads = NoDownloads
    /\ resize_call = NoCall
    /\ extract_call = NoCall

Next ==
    \/ Process(Rich)
    \/ CountFile
    \/ StartProcessing
    \/ ProcessUnsupportedPdf
    \/ ProcessPdfOpenError
    \/ ProcessPdfNoPages
    \/ ProcessPdfPage(Rich)
    \/ ProcessPdfWhole(Rich)
    \/ ProcessImageFile(Rich)
    \/ Complete
    \/ Rerun
    \/ Reload

Spec == Init /\ [][Next]_vars

\* the same script with a single model answer, to explore more and longer uploads
NextFlow ==
    \/ Process(Lean)
    \/ CountFile
    \/ StartProcessing
    \/ ProcessUnsupportedPdf
    \/ ProcessPdfOpenError
    \/ ProcessPdfNoPages
    \/ ProcessPdfPage(Lean)
    \/ ProcessPdfWhole(Lean)
    \/ ProcessImageFile(Lean)
    \/ Complete
    \/ Rerun
    \/ Reload

SpecFlow == Init /\ [][NextFlow]_vars

-----------------------------------------------------------------------------
(* resize_image and extract_structured_data on their own, over bounded     *)
(* arguments.                                                              *)

Idle ==
    /\ PDF_SUPPORT = TRUE
    /\ uploaded_files = <<>>
    /\ extraction_mode = GENERAL
    /\ pdf_process_mode = PER_PAGE
    /\ fields = None
    /\ results = <<>>
    /\ structured_results = <<>>
    /\ total_items = 0
    /\ processed_count = 0
    /\ pc = "idle"
    /\ i = 1
    /\ page_num = 0
    /\ status_text = ""
    /\ progress = <<0, 1>>
    /\ errors = <<>>
    /\ calls = <<>>
    /\ downloads = NoDownloads

\* sizes around the default max_size, which process_image uses (line 157)
LargeDims == {1, 561, 1024, 1025, 1122, 2000}

ResizeArgs ==
    {<<<<w, h>>, m>> : w \in 1..MaxDim, h \in 1..MaxDim, m \in 1..MaxSide}
    \cup {<<<<w, h>>, DEFAULT_MAX_SIZE>> : w \in LargeDims, h \in LargeDims}

InitResize ==
    /\ Idle
    /\ resize_call \in {[args |-> a, ret |-> <<>>] : a \in ResizeArgs}
    /\ extract_call = NoCall

ResizeImage ==
    /\ resize_call.args # <<>>
    /\ resize_call.ret = <<>>
    /\ resize_call' = [resize_call EXCEPT
                          !.ret = <<resize_image(resize_call.args[1],
                                                 resize_call.args[2])>>]
    /\ UNCHANGED <<batch_vars, extract_call>>

NextResize == ResizeImage

SpecResize == InitResize /\ [][NextResize]_vars

Dicts ==
    {EmptyDict,
     Str(S_Total) :> "9",
     (Str(S_Total) :> "9") @@ (Str(S_Date) :> "d"),
     (KEY_filename :> "zz") @@ (Str(S_Total) :> "9")}

Parses ==
    {ParseError}
    \cup {Object(d) : d \in Dicts}
    \cup {Other(EmptyDict, TRUE), Other(EmptyDict, FALSE),
          Other(Num(1) :> "x", FALSE), Other(Str(S_Date) :> "d", TRUE)}

Contents ==
    {c \in [fenced : BOOLEAN, block : Parses, whole : Parses,
            quoted : SUBSET {S_Total, S_Date, S_filename}] : WellFormed(c)}

FieldLists ==
    {<<S_Total>>, <<<<SPACE>> \o S_Date \o <<SPACE>>, S_Total>>, <<S_date>>}

InitExtract ==
    /\ Idle
    /\ resize_call = NoCall
    /\ extract_call \in {[args |-> <<c, f>>, ret |-> <<>>] :
                            c \in Contents, f \in FieldLists}

ExtractStructuredData ==
    /\ extract_call.args # <<>>
    /\ extract_call.ret = <<>>
    /\ extract_call' = [extract_call EXCEPT
                           !.ret = <<extract_structured_data(extract_call.args[1],
                                                             extract_call.args[2])>>]
    /\ UNCHANGED <<batch_vars, resize_call>>

NextExtract == ExtractStructuredData

SpecExtract == InitExtract /\ [][NextExtract]_vars

-----------------------------------------------------------------------------
(* Vocabulary of the properties.                                           *)

InBatch == pc \in {"counting", "processing", "complete"}

Labels(res) == [n \in DOMAIN res |-> res[n].filename]

\* the labels of a file's work units, in page order
Units(f) ==
    IF is_pdf(f) /\ PDF_SUPPORT /\ pdf_process_mode = PER_PAGE /\ f.opens
    THEN [p \in 1..f.pages |-> page_label(Name(f), p - 1)]
    ELSE <<Name(f)>>

RECURSIVE Enumeration(_)
\* document-then-page enumeration of an upload
Enumeration(files) ==
    IF files = <<>> THEN <<>> ELSE Units(Head(files)) \o Enumeration(Tail(files))

RECURSIVE IsSubsequence(_, _)
IsSubsequence(s, t) ==
    IF s = <<>> THEN TRUE
    ELSE IF t = <<>> THEN FALSE
    ELSE IF Head(s) = Head(t) THEN IsSubsequence(Tail(s), Tail(t))
    ELSE IsSubsequence(s, Tail(t))

NoDuplicates(s) == \A m, n \in DOMAIN s : m # n => s[m] # s[n]

DistinctNames ==
    NoDuplicates([n \in DOMAIN uploaded_files |-> Name(uploaded_files[n])])

\* page p of file number f was taken up: its model call was made, or its own
\* rasterization or encoding failed
Attempted(f, p) ==
    \/ \E n \in DOMAIN calls : calls[n].file = f /\ calls[n].page = p
    \/ \E n \in DOMAIN errors : errors[n].file = f /\ errors[n].page = p

PerPagePdf(f) ==
    /\ is_pdf(uploaded_files[f])
    /\ PDF_SUPPORT
    /\ uploaded_files[f].opens
    /\ pdf_process_mode = PER_PAGE

-----------------------------------------------------------------------------
(* C1.  When a batch run reaches Complete, processed_count equals          *)
(* total_items (progress is exactly 1.0): every unit, failed ones          *)
(* included, advanced the counter by one.                                  *)
C1_CompleteMeansAllCounted ==
    pc = "complete" => processed_count = total_items

(* C2.  A failure is confined to one work unit: when page k of a PDF       *)
(* processed page by page fails, every later page of that document is      *)
(* still taken up, and so is every later document.  Stated of finished     *)
(* runs.                                                                   *)
C2_FailureConfinedToUnit ==
    pc = "complete" =>
        \A n \in DOMAIN errors :
            PerPagePdf(errors[n].file) =>
                /\ \A p \in (errors[n].page + 1)..(uploaded_files[errors[n].file].pages - 1) :
                      Attempted(errors[n].file, p)
                /\ \A f \in (errors[n].file + 1)..Len(uploaded_files) :
                      uploaded_files[f].pages > 0 => Attempted(f, 0)

(* C3.  No condition aborts a batch run before the last document has been  *)
(* visited: the run is never ended by an uncaught exception.               *)
C3_RunNeverAborts == pc # "aborted"

(* C4.  Every record in structured_results is a successful one: it has     *)
(* more than the single key 'filename'.                                    *)
C4_OnlySuccessfulRecords ==
    \A n \in DOMAIN structured_results : len(structured_results[n]) > 1

(* C5, as claimed.  During a batch run the labels of results are a         *)
(* subsequence of the document-then-page enumeration, no label appears     *)
(* twice, and a run that completes without a failure has exactly the       *)
(* enumeration as its results, one entry per work unit.                    *)
C5_OrderAndNoDuplicates ==
    InBatch =>
        /\ IsSubsequence(Labels(results), Enumeration(uploaded_files))
        /\ NoDuplicates(Labels(results))
        /\ (pc = "complete" /\ errors = <<>>) =>
              /\ Labels(results) = Enumeration(uploaded_files)
              /\ Len(results) = total_items

(* C5, amended.  As C5, but no label appears twice provided the uploaded   *)
(* file names are pairwise distinct (two uploads of the same name give     *)
(* the same label twice).                                                  *)
C5_OrderAndNoDuplicatesForDistinctNames ==
    InBatch =>
        /\ IsSubsequence(Labels(results), Enumeration(uploaded_files))
        /\ DistinctNames => NoDuplicates(Labels(results))
        /\ (pc = "complete" /\ errors = <<>>) =>
              /\ Labels(results) = Enumeration(uploaded_files)
              /\ Len(results) = total_items

\* two images and a two-page PDF, page by page, nothing failing: 4 results
C5_Witness ==
    /\ pc = "complete"
    /\ errors = <<>>
    /\ DistinctNames
    /\ Len(uploaded_files) = 3
    /\ \E f \in DOMAIN uploaded_files : PerPagePdf(f) /\ uploaded_files[f].pages = 2
    /\ Len(results) = 4
    /\ total_items = 4

(* C6.  Whenever the structured export is due (custom field extraction,    *)
(* structured collection not empty), its header is the ascending           *)
(* duplicate-free list of the union of the records' keys with 'filename',  *)
(* and it has one row per record, in order, each with one cell per         *)
(* column: the record's value, or the empty string for a missing column.   *)
C6_StructuredExport ==
    (pc \in {"complete", "idle"} /\ extraction_mode = CUSTOM
        /\ Len(structured_results) > 0) =>
        /\ downloads.structured
        /\ {downloads.field_list[n] : n \in DOMAIN downloads.field_list}
              = all_fields(structured_results)
        /\ \A m, n \in DOMAIN downloads.field_list :
              m < n => /\ downloads.field_list[m].type = "str"
                       /\ downloads.field_list[n].type = "str"
                       /\ StrLess(downloads.field_list[m].repr,
                                  downloads.field_list[n].repr)
        /\ Len(downloads.rows) = Len(structured_results)
        /\ \A n \in DOMAIN downloads.rows :
              /\ Len(downloads.rows[n]) = Len(downloads.field_list)
              /\ \A k \in DOMAIN downloads.field_list :
                    downloads.rows[n][k] =
                        IF downloads.field_list[k] \in DOMAIN structured_results[n]
                        THEN structured_results[n][downloads.field_list[k]]
                        ELSE ""

(* C9.  Every record in structured_results has a 'filename' key whose      *)
(* value is the display label of the unit that produced it: the filename   *)
(* values of the records, in order, are labels of results, in order.       *)
C9_FilenameIsTheLabel ==
    /\ \A n \in DOMAIN structured_results :
          KEY_filename \in DOMAIN structured_results[n]
    /\ IsSubsequence([n \in DOMAIN structured_results |->
                         get(structured_results[n], KEY_filename, "")],
                     Labels(results))

(* C10.  While processing, 0 <= processed_count <= total_items;            *)
(* processed_count never decreases and total_items does not change after   *)
(* the counting phase; every progress fraction handed to the progress bar  *)
(* has a denominator >= 1 and lies in [0, 1] (no division by zero).        *)
C10_State ==
    /\ pc \in {"processing", "complete"} =>
          (0 <= processed_count /\ processed_count <= total_items)
    /\ progress[2] >= 1
    /\ 0 <= progress[1]
    /\ progress[1] <= progress[2]
    /\ pc \in {"processing", "complete"} => progress = <<processed_count, total_items>>
                                            \/ progress = <<0, 1>>
    /\ \A n \in DOMAIN errors : errors[n].message # "ZeroDivisionError"

C10_Step ==
    pc = "processing" =>
        /\ pc' \in {"processing", "complete"}
        /\ processed_count' >= processed_count
        /\ total_items' = total_items

C10_ProgressWellDefined == [](C10_State) /\ [][C10_Step]_vars

\* a finished run in which some unit failed after others were counted
C10_Witness ==
    /\ pc = "complete"
    /\ total_items = 4
    /\ processed_count = 3
    /\ progress = <<3, 4>>

-----------------------------------------------------------------------------
(* extract_structured_data, on its own.                                    *)

Extracted == extract_call.ret # <<>>

ExtContent == extract_call.args[1]

ExtFields == extract_call.args[2]

ExtResult == extract_call.ret[1]

\* some trimmed expected field name occurs quoted in the text
SomeFieldQuoted ==
    \E n \in DOMAIN ExtFields : strip(ExtFields[n]) \in ExtContent.quoted

(* C7, as claimed.  A first-match-wins chain: (1) a fenced block that      *)
(* parses as a JSON object gives exactly its pairs; (2) when step 1 yields *)
(* no value (no fenced block, or one that fails to parse), a field name    *)
(* occurring quoted and the whole text parsing as a JSON object give       *)
(* exactly that object's pairs; (3) otherwise the result is empty.  (Where *)
(* the claim leaves open whether a block that parses to a non-object       *)
(* counts as "no value", either reading is accepted.)                      *)
C7_FirstMatchWinsChain ==
    Extracted =>
        LET c == ExtContent
            step1 == c.fenced /\ c.block.kind = "object"
            step2 == ~step1 /\ SomeFieldQuoted /\ c.whole.kind = "object"
        IN  /\ step1 => ExtResult = c.block.pairs
            /\ (step2 /\ (~c.fenced \/ c.block.kind = "error")) =>
                  ExtResult = c.whole.pairs
            /\ (step2 /\ c.fenced /\ c.block.kind = "other") =>
                  ExtResult \in {c.whole.pairs, EmptyDict}
            /\ (~step1 /\ ~step2) => ExtResult = EmptyDict

(* C7, amended.  A fenced block decides alone: if the first block parses   *)
(* as a JSON object the result is exactly its pairs, and if it fails to    *)
(* parse the result is empty, with no fall-through to the whole text.      *)
(* Without a fenced block: if some trimmed field name occurs quoted and    *)
(* the whole text parses as a JSON object, the result is exactly that      *)
(* object's pairs; if no field name occurs quoted or the whole text fails  *)
(* to parse, the result is empty.  A block or text that parses to a JSON   *)
(* value other than an object gives the pairs dict.update takes from it    *)
(* (those of its leading 2-element items), which need not be none.         *)
C7_FencedBlockDecidesAlone ==
    Extracted =>
        LET c == ExtContent
        IN  /\ (c.fenced /\ c.block.kind = "object") => ExtResult = c.block.pairs
            /\ (c.fenced /\ c.block.kind = "error") => ExtResult = EmptyDict
            /\ (c.fenced /\ c.block.kind = "other") => ExtResult = c.block.pairs
            /\ (~c.fenced /\ SomeFieldQuoted /\ c.whole.kind = "object") =>
                  ExtResult = c.whole.pairs
            /\ (~c.fenced /\ SomeFieldQuoted /\ c.whole.kind = "other") =>
                  ExtResult = c.whole.pairs
            /\ (~c.fenced /\ (~SomeFieldQuoted \/ c.whole.kind = "error")) =>
                  ExtResult = EmptyDict

\* a fenced block that fails to parse, in a text that is itself a JSON object
\* naming an expected field: the result is empty
C7_Witness ==
    /\ Extracted
    /\ ExtContent.fenced
    /\ ExtContent.block.kind = "error"
    /\ ExtContent.whole.kind = "object"
    /\ ExtContent.whole.pairs # EmptyDict
    /\ SomeFieldQuoted
    /\ ExtResult = EmptyDict

-----------------------------------------------------------------------------
(* resize_image, on its own.                                               *)

Resized == resize_call.ret # <<>>

Width == resize_call.args[1][1]

Height == resize_call.args[1][2]

MaxSize == resize_call.args[2]

NewWidth == resize_call.ret[1][1]

NewHeight == resize_call.ret[1][2]

Fits == Width <= MaxSize /\ Height <= MaxSize

Long == IF Width > Height THEN Width ELSE Height

Short == IF Width > Height THEN Height ELSE Width

\* the side resize_image computes: the height when width > height, else the width
NewShort == IF Width > Height THEN NewHeight ELSE NewWidth

NewLong == IF Width > Height THEN NewWidth ELSE NewHeight

\* r is an integer nearest to Short * MaxSize / Long (either one at a tie)
Nearest(r) ==
    /\ 2 * r * Long - 2 * Short * MaxSize <= Long
    /\ 2 * Short * MaxSize - 2 * r * Long <= Long

(* C8, as claimed.  An image that fits is returned with unchanged          *)
(* dimensions; otherwise the longer side of the output is max_size and the *)
(* shorter side is round(short * max_size / long), at least 1 pixel.       *)
C8_ShortSideRounded ==
    Resized =>
        /\ Fits => resize_call.ret[1] = resize_call.args[1]
        /\ ~Fits => /\ NewLong = MaxSize
                    /\ NewShort <= NewLong
                    /\ Nearest(NewShort)
                    /\ NewShort >= 1

(* What resize_image computes instead, for an image that does not fit:    *)
(* the longer side is max_size and the other side is                       *)
(* int(short * (max_size / long)) in floating point, which is              *)
(* floor(short * max_size / long), or one less than that in some cases     *)
(* where long divides short * max_size, and is 0 when                      *)
(* short * max_size < long.                                                *)
ShortSideTruncated ==
    Resized =>
        /\ Fits => resize_call.ret[1] = resize_call.args[1]
        /\ ~Fits =>
              LET floor == (Short * MaxSize) \div Long
              IN  /\ NewLong = MaxSize
                  /\ NewShort <= NewLong
                  /\ NewShort \in {floor, floor - 1}
                  /\ (Short * MaxSize) % Long # 0 => NewShort = floor
                  /\ NewShort >= 0
                  /\ Short * MaxSize < Long => NewShort = 0

\* an image that is scaled down to a side of 0 pixels
ZeroSide ==
    /\ Resized
    /\ ~Fits
    /\ NewShort = 0
    /\ NewLong = MaxSize

====
